---- MODULE Spec2Model ----
(***************************************************************************)
(* The deferred embed-suppression store of linkfixbot                      *)
(* (src/src/fix_existing_message.rs): the three buckets of                 *)
(* FutureEmbedRemovalsInner behind a tokio RwLock, the add_* and update_*  *)
(* operations of FutureEmbedRemovals, the reply-send handler               *)
(* handle_embed_suppression, the two update handlers and the pure          *)
(* function determine_target_embed_count.                                  *)
(*                                                                         *)
(* Every handler is a task.  A task takes a step at each await of the      *)
(* source: a lock acquisition is one step (the guard is the lock being     *)
(* available), the synchronous section that follows it up to the release   *)
(* of the guard is the next step, and the suppression network call is a    *)
(* step of its own.                                                        *)
(*                                                                         *)
(* Spec        the handlers driven by arbitrary replies and update events  *)
(* SpecPair    the store's operations called in fixed sequences on two     *)
(*             correlations, one handler at a time                         *)
(* FairPair    SpecPair with every enabled step eventually taken           *)
(* SpecTarget  determine_target_embed_count applied to arbitrary lists     *)
(* SpecSend    the reply-send handler and the update handlers called in    *)
(*             fixed sequences, with and without the store in the TypeMap  *)
(* SpecRace    the update handlers of one correlation running concurrently *)
(* SpecMenu    the single-map variant of src/src/context_menu.rs           *)
(* SpecMenuRace  that variant with two update events for one reply        *)
(* SpecObserved  one correlation whose original message is observed twice *)
(* SpecMessage   the handler of a new message and the signals that follow *)
(* SpecDispatch  the dispatcher of message-update events                  *)
(***************************************************************************)
EXTENDS Integers, Sequences, FiniteSets, TLC

\* ------------------------------------------------------------------ bounds
\* Number of (original message, bot reply) correlations.
NumCorr == 2
\* Number of update handlers that may be in flight at the same time.
NumTasks == 2
\* Number of message-update events delivered in one run.
MaxEvents == 3
\* Largest embed count a bot reply reports.
MaxCount == 2
\* Largest number of fixable links of a message in the store runs.
MaxLinks == 1
\* Largest number of embeds the original message shows when the reply is sent.
MaxEmbeds == 2
\* Largest number of embeds a message-update event of an original message carries.
MaxEventEmbeds == 1
\* Largest list length in the runs of determine_target_embed_count alone.
MaxPureLen == 3

\* "A" is a link the rewriter fixes, "B" a link it leaves alone.
Urls == {"A", "B"}
FixableUrls == {"A"}
\* An embed whose `url` is None (Embed::url is an Option<String>).
NoUrl == "none"

Corrs == 1..NumCorr
Tasks == 1..NumTasks
OrigId(c) == c
BotId(c) == NumCorr + c
Messages == 1..(2 * NumCorr)

SeqsUpTo(S, n) == UNION {[1..k -> S] : k \in 0..n}
LinkLists == SeqsUpTo(FixableUrls, MaxLinks)
EmbedLists == SeqsUpTo(Urls \cup {NoUrl}, MaxEmbeds)
EventEmbedLists == SeqsUpTo(Urls \cup {NoUrl}, MaxEventEmbeds)
PureLists == SeqsUpTo(Urls, MaxPureLen)

\* Option<T>
NoneOpt == [some |-> FALSE]
Some(x) == [some |-> TRUE, val |-> x]

VARIABLES
    neither,          \* FutureEmbedRemovalsInner.neither : Vec<FutureEmbedRemoval>
    original,         \* FutureEmbedRemovalsInner.original
    bot,              \* FutureEmbedRemovalsInner.bot
    readers,          \* tasks holding a read guard of the RwLock
    writer,           \* the task holding the write guard, or 0
    tasks,            \* per task: position in its handler and its locals
    events,           \* message-update events delivered so far
    registered,       \* correlations whose reply was sent (handle_embed_suppression ran)
    suppressCalls,    \* per message: calls of suppress_embeds on it
    matches,          \* per correlation: update operations that reported success
    mismatched,       \* correlations for which an update found unequal counts
    sentScenarioB,    \* correlations sent with one fixable and one unrelated embed, none on the reply
    failed,           \* messages on which a call of suppress_embeds returned an error
    present,          \* whether context.data holds the store the handler asks for
    menuRemovals,     \* context_menu: the HashMap<MessageId, FutureEmbedRemoval>
    menuMutex,        \* context_menu: the task holding the Mutex of the map, or 0
    tEmbeds, tLinks, tResult,  \* inputs and result of determine_target_embed_count alone
    script, ip        \* a fixed sequence of store calls and the next call of it

storeVars == <<neither, original, bot>>
lockVars == <<readers, writer>>
histVars == <<suppressCalls, matches, mismatched, sentScenarioB, failed>>
menuVars == <<menuRemovals, menuMutex>>
pureVars == <<tEmbeds, tLinks, tResult>>
scriptVars == <<script, ip>>
handlerVars == <<neither, original, bot, readers, writer, tasks, events, registered,
                 suppressCalls, matches, mismatched, sentScenarioB, failed, present,
                 menuRemovals, menuMutex>>
vars == <<neither, original, bot, readers, writer, tasks, events, registered,
          suppressCalls, matches, mismatched, sentScenarioB, failed, present,
          menuRemovals, menuMutex,
          tEmbeds, tLinks, tResult, script, ip>>

\* ----------------------------------------------------------- Vec helpers
\* Iterator::position: the index of the first element equal to x, 0 for None.
RECURSIVE PositionFrom(_, _, _)
PositionFrom(s, x, i) ==
    IF i > Len(s) THEN 0
    ELSE IF s[i] = x THEN i
    ELSE PositionFrom(s, x, i + 1)

position(s, x) == PositionFrom(s, x, 1)

\* Vec::swap_remove: the element at i is replaced by the last one.
swap_remove(s, i) ==
    IF i = Len(s) THEN SubSeq(s, 1, Len(s) - 1)
    ELSE [k \in 1..(Len(s) - 1) |-> IF k = i THEN s[Len(s)] ELSE s[k]]

\* get_embed_urls keeping the embeds that have no url.
get_embed_urls_keep_all(embeds) == embeds

\* util::get_embed_urls: filter_map over Embed::url.
get_embed_urls(embeds) == SelectSeq(embeds, LAMBDA e : e # NoUrl)

\* ------------------------------------------ determine_target_embed_count
\* The loop counting every fixable link, found among the embeds or not.
RECURSIVE TargetLoop_counts_every_link(_, _, _, _)
TargetLoop_counts_every_link(embed_urls, fixable_embed_links, i, target_embed_count) ==
    IF i > Len(fixable_embed_links)
    THEN [embed_urls |-> embed_urls, target_embed_count |-> target_embed_count]
    ELSE LET pos == position(embed_urls, fixable_embed_links[i])
         IN  TargetLoop_counts_every_link(
                 IF pos # 0 THEN swap_remove(embed_urls, pos) ELSE embed_urls,
                 fixable_embed_links, i + 1, target_embed_count + 1)

RECURSIVE TargetLoop(_, _, _, _)
TargetLoop(embed_urls, fixable_embed_links, i, target_embed_count) ==
    IF i > Len(fixable_embed_links)
    THEN [embed_urls |-> embed_urls, target_embed_count |-> target_embed_count]
    ELSE LET pos == position(embed_urls, fixable_embed_links[i])
         IN  IF pos # 0
             THEN TargetLoop(swap_remove(embed_urls, pos), fixable_embed_links,
                             i + 1, target_embed_count + 1)
             ELSE TargetLoop(embed_urls, fixable_embed_links, i + 1,
                             target_embed_count)

\* determine_target_embed_count without the final is_empty() test.
determine_target_embed_count_no_leftover_check(embed_urls, fixable_embed_links) ==
    Some(TargetLoop(embed_urls, fixable_embed_links, 1, 0).target_embed_count)

determine_target_embed_count(embed_urls, fixable_embed_links) ==
    LET r == TargetLoop(embed_urls, fixable_embed_links, 1, 0)
    IN  IF r.embed_urls = <<>> THEN Some(r.target_embed_count) ELSE NoneOpt

\* ------------------------------------------------------------------ Init
IdleTask == [pc |-> "idle", msg |-> 0, count |-> 0, links |-> <<>>]

InitStore ==
    /\ neither = <<>>
    /\ original = <<>>
    /\ bot = <<>>
    /\ readers = {}
    /\ writer = 0
    /\ tasks = [t \in Tasks |-> IdleTask]
    /\ events = 0
    /\ registered = {}
    /\ suppressCalls = [m \in Messages |-> 0]
    /\ matches = [c \in Corrs |-> 0]
    /\ mismatched = {}
    /\ sentScenarioB = {}
    /\ failed = {}
    /\ menuRemovals = {}
    /\ menuMutex = 0

\* main: the store is inserted into client.data before the client starts.
StoreInserted == present = TRUE

Pending == [done |-> FALSE, result |-> NoneOpt]
NoPure ==
    /\ tEmbeds = <<>>
    /\ tLinks = <<>>
    /\ tResult = Pending
NoScript ==
    /\ script = <<>>
    /\ ip = 1

Init ==
    /\ InitStore
    /\ StoreInserted
    /\ NoPure
    /\ NoScript

\* ------------------------------------------------------------- the lock
\* tokio::sync::RwLock: a write guard excludes every other guard.  No guard is
\* held over an await in the source: the section behind a guard is synchronous
\* code.  A task that holds a guard therefore runs to the release of the guard
\* before another task takes a step (Running), which leaves out only the
\* schedules in which two sections that cannot affect each other overlap.
Running == readers = {} /\ writer = 0
CanRead == writer = 0 /\ Running
CanWrite == writer = 0 /\ readers = {}

\* ------------------------------------------------- FutureEmbedRemovals::add_*
add_neither_generated(original_message, bot_message, fixable_embed_links) ==
    /\ neither' = Append(neither, [original_message |-> original_message,
                                   bot_message |-> bot_message,
                                   fixable_embed_links |-> fixable_embed_links])
    /\ UNCHANGED <<original, bot>>

add_original_generated(original_message, bot_message, target_embed_count) ==
    /\ original' = Append(original, [original_message |-> original_message,
                                     bot_message |-> bot_message,
                                     target_embed_count |-> target_embed_count])
    /\ UNCHANGED <<neither, bot>>

add_bot_generated(original_message, bot_message, fixable_embed_links, embed_count) ==
    /\ bot' = Append(bot, [original_message |-> original_message,
                           bot_message |-> bot_message,
                           fixable_embed_links |-> fixable_embed_links,
                           embed_count |-> embed_count])
    /\ UNCHANGED <<neither, original>>

\* ------------------------------------------------------- suppress_embeds
\* The edit request on `message`; an error is only printed.
suppress_embeds(message) ==
    /\ suppressCalls' = [suppressCalls EXCEPT ![message] = @ + 1]
    /\ \E ok \in BOOLEAN :
          failed' = IF ok THEN failed ELSE failed \cup {message}

\* --------------------------------------------------- reply-send handler
\* The state of the two messages the spec calls scenario B: the original shows
\* two embeds, one of the single fixable link and one of another url, and the
\* reply shows none.
ScenarioB(embeds, bot_embeds, fixable_embed_links) ==
    /\ bot_embeds = 0
    /\ Len(embeds) = 2
    /\ Len(fixable_embed_links) = 1
    /\ \E i \in 1..2 :
          /\ embeds[i] = fixable_embed_links[1]
          /\ embeds[3 - i] \in Urls \ {fixable_embed_links[1]}

\* handle_embed_suppression, called once per reply by try_react_and_suppress.
\* embeds: original_message.embeds; bot_embeds: bot_message.embeds.len().
\* The write guard of add_* is taken and released inside the step, and so is
\* the suppression call of the case in which both messages show embeds.
handle_embed_suppression(c, embeds, bot_embeds, fixable_embed_links) ==
    LET o == OrigId(c)
        b == BotId(c)
        now == determine_target_embed_count(get_embed_urls(embeds), fixable_embed_links)
    IN
    /\ Running
    /\ c \notin registered
    /\ \A d \in Corrs : d < c => d \in registered
    /\ registered' = registered \cup {c}
    /\ sentScenarioB' = IF ScenarioB(embeds, bot_embeds, fixable_embed_links)
                        THEN sentScenarioB \cup {c} ELSE sentScenarioB
    /\ IF embeds # <<>> /\ bot_embeds # 0
       THEN \* both immediately have embeds: no store access
            /\ IF now.some /\ now.val = bot_embeds
               THEN suppress_embeds(o)
               ELSE UNCHANGED <<suppressCalls, failed>>
            /\ UNCHANGED storeVars
       ELSE /\ UNCHANGED <<suppressCalls, failed>>
            /\ IF ~present
               THEN \* data.get::<FutureEmbedRemovalsTypeMap>() is None
                    UNCHANGED storeVars
               ELSE IF embeds = <<>> /\ bot_embeds = 0
               THEN add_neither_generated(o, b, fixable_embed_links)
               ELSE IF embeds = <<>>
               THEN \* match arm (true, false)
                    LET t0 == determine_target_embed_count(get_embed_urls(embeds),
                                                           fixable_embed_links)
                    IN  IF t0.some
                        THEN add_original_generated(o, b, t0.val)
                        ELSE UNCHANGED storeVars
               ELSE \* match arm (false, true)
                    add_bot_generated(o, b, fixable_embed_links, bot_embeds)
    /\ UNCHANGED <<lockVars, tasks, events, matches, mismatched>>

ReplySent ==
    \E c \in Corrs, embeds \in EmbedLists, bot_embeds \in 0..MaxCount,
       fixable_embed_links \in LinkLists :
        handle_embed_suppression(c, embeds, bot_embeds, fixable_embed_links)

\* ------------------------------------------------------- update handlers
\* A new handler takes the lowest idle task.
FreeTask(t) ==
    /\ tasks[t].pc = "idle"
    /\ \A u \in Tasks : u < t => tasks[u].pc # "idle"

Return(t) == tasks' = [tasks EXCEPT ![t] = IdleTask]
Goto(t, pc) == tasks' = [tasks EXCEPT ![t].pc = pc]

\* Iterator::position over a bucket by one message id field.
RECURSIVE PosBy(_, _, _, _)
PosBy(bucket, isBot, m, i) ==
    IF i > Len(bucket) THEN 0
    ELSE IF (IF isBot THEN bucket[i].bot_message ELSE bucket[i].original_message) = m
         THEN i
    ELSE PosBy(bucket, isBot, m, i + 1)

\* Iterator::position answering the first entry whatever its message id.
position_first(bucket, m) == IF bucket = <<>> THEN 0 ELSE 1

position_bot_message(bucket, m) == PosBy(bucket, TRUE, m, 1)
position_original_message(bucket, m) == PosBy(bucket, FALSE, m, 1)

\* StartBot without the lookup of the store in context.data.
StartBot_without_lookup(t, bot_message, embed_count) ==
    /\ FreeTask(t)
    /\ CanRead
    /\ readers' = readers \cup {t}
    /\ tasks' = [tasks EXCEPT ![t] = [pc |-> "ubg_read", msg |-> bot_message,
                                       count |-> embed_count, links |-> <<>>]]
    /\ UNCHANGED <<storeVars, writer, registered, histVars>>

\* message_update of the bot's own message -> handle_bot_message_embed_generation
\* -> update_bot_generated(event.id, embed count), up to the first read guard.
StartBot(t, bot_message, embed_count) ==
    /\ FreeTask(t)
    /\ IF present
       THEN /\ CanRead
            /\ readers' = readers \cup {t}
            /\ tasks' = [tasks EXCEPT ![t] = [pc |-> "ubg_read", msg |-> bot_message,
                                               count |-> embed_count, links |-> <<>>]]
       ELSE \* "Future removals not present."
            UNCHANGED <<readers, tasks>>
    /\ UNCHANGED <<storeVars, writer, registered, histVars>>

\* BotTail returning the id of the reply instead of removal.original_message.
BotTail_suppresses_reply(t) ==
    LET bot_message == tasks[t].msg
        embed_count == tasks[t].count
        idx == position_bot_message(original, bot_message)
    IN
    /\ readers' = readers \ {t}
    /\ UNCHANGED <<storeVars, writer, events, registered, suppressCalls,
                   sentScenarioB, failed>>
    /\ IF idx # 0 /\ original[idx].target_embed_count = embed_count
       THEN /\ tasks' = [tasks EXCEPT ![t] = [pc |-> "suppress",
                            msg |-> original[idx].bot_message,
                            count |-> 0, links |-> <<>>]]
            /\ matches' = [matches EXCEPT ![original[idx].original_message] = @ + 1]
            /\ UNCHANGED mismatched
       ELSE /\ Return(t)
            /\ UNCHANGED matches
            /\ mismatched' = IF idx # 0
                             THEN mismatched \cup {original[idx].original_message}
                             ELSE mismatched

\* update_bot_generated, the comparison with the original-known bucket,
\* done under a read guard, which the return releases.
BotTail(t) ==
    LET bot_message == tasks[t].msg
        embed_count == tasks[t].count
        idx == position_bot_message(original, bot_message)
    IN
    /\ readers' = readers \ {t}
    /\ UNCHANGED <<storeVars, writer, events, registered, suppressCalls,
                   sentScenarioB, failed>>
    /\ IF idx # 0 /\ original[idx].target_embed_count = embed_count
       THEN \* Some(removal.original_message): the handler goes on to suppress
            /\ tasks' = [tasks EXCEPT ![t] = [pc |-> "suppress",
                            msg |-> original[idx].original_message,
                            count |-> 0, links |-> <<>>]]
            /\ matches' = [matches EXCEPT ![original[idx].original_message] = @ + 1]
            /\ UNCHANGED mismatched
       ELSE /\ Return(t)
            /\ UNCHANGED matches
            /\ mismatched' = IF idx # 0
                             THEN mismatched \cup {original[idx].original_message}
                             ELSE mismatched

UbgRead(t) ==
    /\ tasks[t].pc = "ubg_read"
    /\ IF position_bot_message(neither, tasks[t].msg) # 0
       THEN /\ readers' = readers \ {t}
            /\ Goto(t, "ubg_wantw")
            /\ UNCHANGED <<storeVars, writer, events, registered, histVars>>
       ELSE BotTail(t)

AcquireWrite(t) ==
    /\ tasks[t].pc \in {"ubg_wantw", "uog_wantw", "uog_wantw2"}
    /\ CanWrite
    /\ writer' = t
    /\ Goto(t, CASE tasks[t].pc = "ubg_wantw" -> "ubg_write"
                 [] tasks[t].pc = "uog_wantw" -> "uog_write"
                 [] OTHER -> "uog_write2")
    /\ UNCHANGED <<storeVars, readers, events, registered, histVars>>

AcquireRead(t) ==
    /\ tasks[t].pc \in {"ubg_wantr", "uog_wantr"}
    /\ CanRead
    /\ readers' = readers \cup {t}
    /\ Goto(t, IF tasks[t].pc = "ubg_wantr" THEN "ubg_read2" ELSE "uog_read2")
    /\ UNCHANGED <<storeVars, writer, events, registered, histVars>>

\* UbgWrite pushing the bot-known entry without the swap_remove from `neither`.
UbgWrite_keeps_entry(t) ==
    LET index == position_bot_message(neither, tasks[t].msg) IN
    /\ tasks[t].pc = "ubg_write"
    /\ writer' = 0
    /\ UNCHANGED <<readers, events, registered, histVars, original, neither>>
    /\ IF index # 0
       THEN LET removal == neither[index] IN
            /\ bot' = Append(bot, [original_message |-> removal.original_message,
                                   bot_message |-> removal.bot_message,
                                   fixable_embed_links |-> removal.fixable_embed_links,
                                   embed_count |-> tasks[t].count])
            /\ Return(t)
       ELSE /\ Goto(t, "ubg_wantr")
            /\ UNCHANGED bot

\* UbgWrite returning None when the entry has left `neither` since the read.
UbgWrite_gives_up(t) ==
    LET index == position_bot_message(neither, tasks[t].msg) IN
    /\ tasks[t].pc = "ubg_write"
    /\ writer' = 0
    /\ UNCHANGED <<readers, events, registered, histVars, original>>
    /\ IF index # 0
       THEN LET removal == neither[index] IN
            /\ neither' = swap_remove(neither, index)
            /\ bot' = Append(bot, [original_message |-> removal.original_message,
                                   bot_message |-> removal.bot_message,
                                   fixable_embed_links |-> removal.fixable_embed_links,
                                   embed_count |-> tasks[t].count])
            /\ Return(t)
       ELSE /\ Return(t)
            /\ UNCHANGED <<neither, bot>>

\* update_bot_generated under the write guard: the re-check of `neither`.
UbgWrite(t) ==
    LET index == position_bot_message(neither, tasks[t].msg) IN
    /\ tasks[t].pc = "ubg_write"
    /\ writer' = 0
    /\ UNCHANGED <<readers, events, registered, histVars, original>>
    /\ IF index # 0
       THEN LET removal == neither[index] IN
            /\ neither' = swap_remove(neither, index)
            /\ bot' = Append(bot, [original_message |-> removal.original_message,
                                   bot_message |-> removal.bot_message,
                                   fixable_embed_links |-> removal.fixable_embed_links,
                                   embed_count |-> tasks[t].count])
            /\ Return(t)
       ELSE /\ Goto(t, "ubg_wantr")
            /\ UNCHANGED <<neither, bot>>

UbgRead2(t) ==
    /\ tasks[t].pc = "ubg_read2"
    /\ BotTail(t)

\* The update handler's call of suppress_embeds after a reported match; the
\* handler returns whatever the outcome of the call.
Suppress(t) ==
    /\ tasks[t].pc = "suppress"
    /\ Running
    /\ suppress_embeds(tasks[t].msg)
    /\ Return(t)
    /\ UNCHANGED <<storeVars, lockVars, events, registered, matches, mismatched,
                   sentScenarioB>>

\* message_update of another user's message with a non-empty embed list
\* -> handle_user_message_embed_generation -> update_original_generated(
\* event.id, the embeds' urls), up to the first read guard.
StartOrig(t, original_message, embeds) ==
    /\ FreeTask(t)
    /\ embeds # <<>>
    /\ IF present
       THEN /\ CanRead
            /\ readers' = readers \cup {t}
            /\ tasks' = [tasks EXCEPT ![t] = [pc |-> "uog_read", msg |-> original_message,
                                               count |-> 0,
                                               links |-> get_embed_urls(embeds)]]
       ELSE \* "Future removals not present."
            UNCHANGED <<readers, tasks>>
    /\ UNCHANGED <<storeVars, writer, registered, histVars>>

\* update_original_generated, the look at the bot-known bucket under a read
\* guard: the guard is dropped either way.
OrigTail(t) ==
    /\ readers' = readers \ {t}
    /\ IF position_original_message(bot, tasks[t].msg) # 0
       THEN Goto(t, "uog_wantw2")
       ELSE Return(t)
    /\ UNCHANGED <<storeVars, writer, events, registered, histVars>>

UogRead(t) ==
    /\ tasks[t].pc = "uog_read"
    /\ IF position_original_message(neither, tasks[t].msg) # 0
       THEN /\ readers' = readers \ {t}
            /\ Goto(t, "uog_wantw")
            /\ UNCHANGED <<storeVars, writer, events, registered, histVars>>
       ELSE OrigTail(t)

\* UogWrite with the upgrade out of `neither` reported as a match.
UogWrite_reports_match(t) ==
    LET index == position_original_message(neither, tasks[t].msg) IN
    /\ tasks[t].pc = "uog_write"
    /\ writer' = 0
    /\ UNCHANGED <<readers, events, registered, suppressCalls, mismatched,
                   sentScenarioB, failed, bot>>
    /\ IF index # 0
       THEN LET removal == neither[index]
                target == determine_target_embed_count(tasks[t].links,
                                                       removal.fixable_embed_links)
            IN
            /\ neither' = swap_remove(neither, index)
            /\ UNCHANGED original
            /\ IF target.some
               THEN /\ tasks' = [tasks EXCEPT ![t] = [pc |-> "suppress",
                                    msg |-> removal.original_message,
                                    count |-> 0, links |-> <<>>]]
                    /\ matches' = [matches EXCEPT ![removal.original_message] = @ + 1]
               ELSE /\ Return(t)
                    /\ UNCHANGED matches
       ELSE /\ Goto(t, "uog_wantr")
            /\ UNCHANGED <<neither, original, matches>>

\* update_original_generated under the first write guard: the re-check of
\* `neither` and the upgrade to original-known (or the removal on abstention).
UogWrite(t) ==
    LET index == position_original_message(neither, tasks[t].msg) IN
    /\ tasks[t].pc = "uog_write"
    /\ writer' = 0
    /\ UNCHANGED <<readers, events, registered, histVars, bot>>
    /\ IF index # 0
       THEN LET removal == neither[index]
                target == determine_target_embed_count(tasks[t].links,
                                                       removal.fixable_embed_links)
            IN
            /\ neither' = swap_remove(neither, index)
            /\ original' = IF target.some
                           THEN Append(original,
                                   [original_message |-> removal.original_message,
                                    bot_message |-> removal.bot_message,
                                    target_embed_count |-> target.val])
                           ELSE original
            /\ Return(t)
       ELSE /\ Goto(t, "uog_wantr")
            /\ UNCHANGED <<neither, original>>

UogRead2(t) ==
    /\ tasks[t].pc = "uog_read2"
    /\ OrigTail(t)

\* Whether a bot-known entry's count equals the target count of embed_links.
CountMatches(removal, embed_links) ==
    LET target == determine_target_embed_count(embed_links, removal.fixable_embed_links)
    IN  target.some /\ target.val = removal.embed_count

\* .filter(original_message == ..).position(count matches): the index is the
\* one in the filtered iterator.
RECURSIVE MatchPos(_, _, _)
MatchPos(filtered, embed_links, i) ==
    IF i > Len(filtered) THEN 0
    ELSE IF CountMatches(filtered[i], embed_links) THEN i
    ELSE MatchPos(filtered, embed_links, i + 1)

filtered_position(original_message, embed_links) ==
    MatchPos(SelectSeq(bot, LAMBDA r : r.original_message = original_message),
             embed_links, 1)

\* update_original_generated under the second write guard: the comparison
\* with the bot-known bucket.
UogWrite2(t) ==
    LET original_message == tasks[t].msg
        embed_links == tasks[t].links
        index == filtered_position(original_message, embed_links)
        unequal == {bot[i].original_message : i \in
                      {j \in 1..Len(bot) :
                         /\ bot[j].original_message = original_message
                         /\ determine_target_embed_count(embed_links,
                                bot[j].fixable_embed_links).some
                         /\ ~CountMatches(bot[j], embed_links)}}
    IN
    /\ tasks[t].pc = "uog_write2"
    /\ writer' = 0
    /\ UNCHANGED <<readers, events, registered, suppressCalls, sentScenarioB,
                   failed, neither, original>>
    /\ IF index # 0
       THEN /\ bot' = swap_remove(bot, index)
            /\ tasks' = [tasks EXCEPT ![t] = [pc |-> "suppress",
                            msg |-> original_message, count |-> 0, links |-> <<>>]]
            /\ matches' = [matches EXCEPT ![original_message] = @ + 1]
            /\ UNCHANGED mismatched
       ELSE /\ Return(t)
            /\ mismatched' = mismatched \cup unequal
            /\ UNCHANGED <<bot, matches>>

\* ------------------------------------------------------------------ Spec
\* DiscordEventHandler::message_update, one event of the gateway: the bot's
\* own message goes to the reply side, another user's message with embeds to
\* the original side.
OwnMessageUpdate(t, bot_message, embed_count) ==
    /\ events < MaxEvents
    /\ events' = events + 1
    /\ StartBot(t, bot_message, embed_count)

OtherMessageUpdate(t, original_message, embeds) ==
    /\ events < MaxEvents
    /\ events' = events + 1
    /\ StartOrig(t, original_message, embeds)

\* The handlers leave the variables of the other specifications alone.
Frame == UNCHANGED <<pureVars, scriptVars, present, menuVars>>

Next ==
    \/ ReplySent /\ Frame
    \/ \E t \in Tasks, c \in Corrs, embed_count \in 0..MaxCount :
          OwnMessageUpdate(t, BotId(c), embed_count) /\ Frame
    \/ \E t \in Tasks, c \in Corrs, embeds \in EventEmbedLists :
          OtherMessageUpdate(t, OrigId(c), embeds) /\ Frame
    \/ \E t \in Tasks :
          \/ UbgRead(t) /\ Frame
          \/ UbgWrite(t) /\ Frame
          \/ UbgRead2(t) /\ Frame
          \/ UogRead(t) /\ Frame
          \/ UogWrite(t) /\ Frame
          \/ UogRead2(t) /\ Frame
          \/ UogWrite2(t) /\ Frame
          \/ AcquireWrite(t) /\ Frame
          \/ AcquireRead(t) /\ Frame
          \/ Suppress(t) /\ Frame

Spec == Init /\ [][Next]_vars

\* ------------------------------- determine_target_embed_count on its own
InitTarget ==
    /\ InitStore
    /\ StoreInserted
    /\ NoScript
    /\ tEmbeds \in PureLists
    /\ tLinks \in PureLists
    /\ tResult = Pending

ComputeTarget ==
    /\ ~tResult.done
    /\ tResult' = [done |-> TRUE,
                   result |-> determine_target_embed_count(tEmbeds, tLinks)]
    /\ UNCHANGED <<handlerVars, tEmbeds, tLinks, scriptVars>>

NextTarget == ComputeTarget

SpecTarget == InitTarget /\ [][NextTarget]_vars

\* --------------------------- two correlations, one fixed sequence of calls
\* The store's public operations called one after the other, each handler
\* running to its end before the next call: correlation 1 and correlation 2
\* get the same two pieces of information in opposite orders.
Call(op, c, links, count, embeds) ==
    [op |-> op, c |-> c, links |-> links, count |-> count, embeds |-> embeds]

SignalEmbeds == EventEmbedLists \ {<<>>}

\* add_neither_generated for both, then reply signal / original signal for 1
\* and original signal / reply signal for 2.
OrderScripts ==
    { << Call("add_neither", 1, l, 0, <<>>),
         Call("add_neither", 2, l, 0, <<>>),
         Call("bot", 1, <<>>, n, <<>>),
         Call("orig", 1, <<>>, 0, e),
         Call("orig", 2, <<>>, 0, e),
         Call("bot", 2, <<>>, n, <<>>) >> :
      l \in LinkLists, n \in 0..MaxCount, e \in SignalEmbeds }

\* add_bot_generated(n) then the original signal whose target count is n for 1,
\* add_original_generated(n) then the reply signal with n for 2.
SymmetryScripts ==
    { << Call("add_bot", 1, x[1],
              determine_target_embed_count(get_embed_urls(x[2]), x[1]).val, <<>>),
         Call("add_original", 2, <<>>,
              determine_target_embed_count(get_embed_urls(x[2]), x[1]).val, <<>>),
         Call("orig", 1, <<>>, 0, x[2]),
         Call("bot", 2, <<>>,
              determine_target_embed_count(get_embed_urls(x[2]), x[1]).val, <<>>) >> :
      x \in { y \in LinkLists \X SignalEmbeds :
                determine_target_embed_count(get_embed_urls(y[2]), y[1]).some } }

InitPair ==
    /\ InitStore
    /\ StoreInserted
    /\ NoPure
    /\ script \in OrderScripts \cup SymmetryScripts
    /\ ip = 1

AllIdle == \A t \in Tasks : tasks[t].pc = "idle"

ScriptAdd ==
    /\ ip <= Len(script)
    /\ AllIdle
    /\ Running
    /\ LET call == script[ip]
           o == OrigId(call.c)
           b == BotId(call.c)
       IN  /\ call.op \in {"add_neither", "add_original", "add_bot"}
           /\ CASE call.op = "add_neither" ->
                     add_neither_generated(o, b, call.links)
                [] call.op = "add_original" ->
                     add_original_generated(o, b, call.count)
                [] OTHER ->
                     add_bot_generated(o, b, call.links, call.count)
           /\ registered' = registered \cup {call.c}
    /\ ip' = ip + 1
    /\ UNCHANGED <<lockVars, tasks, events, histVars, script, pureVars, present,
                   menuVars>>

ScriptBot ==
    /\ ip <= Len(script)
    /\ AllIdle
    /\ script[ip].op = "bot"
    /\ StartBot(1, BotId(script[ip].c), script[ip].count)
    /\ ip' = ip + 1
    /\ UNCHANGED <<events, script, pureVars, present, menuVars>>

ScriptOrig ==
    /\ ip <= Len(script)
    /\ AllIdle
    /\ script[ip].op = "orig"
    /\ StartOrig(1, OrigId(script[ip].c), script[ip].embeds)
    /\ ip' = ip + 1
    /\ UNCHANGED <<events, script, pureVars, present, menuVars>>

PairFrame == UNCHANGED <<pureVars, scriptVars, present, menuVars>>

PairNext ==
    \/ ScriptAdd
    \/ ScriptBot
    \/ ScriptOrig
    \/ \E t \in Tasks :
          \/ UbgRead(t) /\ PairFrame
          \/ UbgWrite(t) /\ PairFrame
          \/ UogRead(t) /\ PairFrame
          \/ UogWrite(t) /\ PairFrame
          \/ UogWrite2(t) /\ PairFrame
          \/ AcquireWrite(t) /\ PairFrame
          \/ Suppress(t) /\ PairFrame

SpecPair == InitPair /\ [][PairNext]_vars

\* The runtime polls every handler that can take a step, the lock is granted
\* to a waiting task once it is free, and every call of the sequence is made.
FairPair == SpecPair /\ WF_vars(PairNext)

\* ------------------------------- the handlers called one after the other
\* The reply of correlation 1 is sent while neither message shows an embed,
\* then the reply of correlation 2 with the two messages in any state.
SendScripts ==
    { << Call("send", 1, <<"A">>, 0, <<>>),
         Call("send", 2, l, n, e) >> :
      l \in LinkLists, n \in 0..MaxCount, e \in EmbedLists }

\* The reply of correlation 1 is sent while neither message shows an embed,
\* then a reply signal and an original signal arrive for correlation c, in
\* either order: for c # 1 they name messages that were never registered.
SignalScripts ==
    { << Call("send", 1, <<"A">>, 0, <<>>),
         Call("bot", c, <<>>, n, <<>>),
         Call("orig", c, <<>>, 0, e) >> :
      c \in Corrs, n \in 0..MaxCount, e \in SignalEmbeds }
    \cup
    { << Call("send", 1, <<"A">>, 0, <<>>),
         Call("orig", c, <<>>, 0, e),
         Call("bot", c, <<>>, n, <<>>) >> :
      c \in Corrs, n \in 0..MaxCount, e \in SignalEmbeds }

\* context.data may or may not hold the store the handlers ask for.
InitSend ==
    /\ InitStore
    /\ NoPure
    /\ present \in BOOLEAN
    /\ script \in SendScripts \cup SignalScripts
    /\ ip = 1

ScriptSend ==
    /\ ip <= Len(script)
    /\ AllIdle
    /\ script[ip].op = "send"
    /\ handle_embed_suppression(script[ip].c, script[ip].embeds, script[ip].count,
                                script[ip].links)
    /\ ip' = ip + 1
    /\ UNCHANGED <<script, pureVars, present, menuVars>>

SendNext ==
    \/ ScriptSend
    \/ ScriptBot
    \/ ScriptOrig
    \/ \E t \in Tasks :
          \/ UbgRead(t) /\ PairFrame
          \/ UbgWrite(t) /\ PairFrame
          \/ UogRead(t) /\ PairFrame
          \/ UogWrite(t) /\ PairFrame
          \/ UogWrite2(t) /\ PairFrame
          \/ AcquireWrite(t) /\ PairFrame
          \/ Suppress(t) /\ PairFrame

SpecSend == InitSend /\ [][SendNext]_vars

\* ------------------------- one correlation, the original observed twice
\* The reply of correlation 1 is sent with the two messages in any state and
\* an original signal and a reply signal follow; or it is sent with no embed
\* on either message and two original signals and one reply signal follow,
\* the reply signal last or first.
ObservedScripts ==
    { << Call("send", 1, l, n, e0),
         Call("orig", 1, <<>>, 0, e1),
         Call("bot", 1, <<>>, m, <<>>) >> :
      l \in LinkLists, n \in 0..MaxCount, e0 \in EventEmbedLists,
      e1 \in SignalEmbeds, m \in 0..MaxCount }
    \cup
    { << Call("send", 1, l, 0, <<>>),
         Call("orig", 1, <<>>, 0, e1),
         Call("orig", 1, <<>>, 0, e2),
         Call("bot", 1, <<>>, m, <<>>) >> :
      l \in LinkLists, e1 \in SignalEmbeds, e2 \in SignalEmbeds, m \in 0..MaxCount }
    \cup
    { << Call("send", 1, l, 0, <<>>),
         Call("bot", 1, <<>>, m, <<>>),
         Call("orig", 1, <<>>, 0, e1),
         Call("orig", 1, <<>>, 0, e2) >> :
      l \in LinkLists, e1 \in SignalEmbeds, e2 \in SignalEmbeds, m \in 0..MaxCount }

InitObserved ==
    /\ InitStore
    /\ StoreInserted
    /\ NoPure
    /\ script \in ObservedScripts
    /\ ip = 1

ObservedNext ==
    \/ ScriptSend
    \/ ScriptBot
    \/ ScriptOrig
    \/ \E t \in Tasks :
          \/ UbgRead(t) /\ PairFrame
          \/ UbgWrite(t) /\ PairFrame
          \/ UogRead(t) /\ PairFrame
          \/ UogWrite(t) /\ PairFrame
          \/ UogWrite2(t) /\ PairFrame
          \/ AcquireWrite(t) /\ PairFrame
          \/ Suppress(t) /\ PairFrame

SpecObserved == InitObserved /\ [][ObservedNext]_vars

\* ------------------------------------- the handler of a new message
\* A message for which no reply is registered: the paths of
\* DiscordEventHandler::message, automatic::fix_links and
\* try_react_and_suppress that end before handle_embed_suppression.
NoReplyRegistered(c) ==
    /\ c \notin registered
    /\ \A d \in Corrs : d < c => d \in registered
    /\ registered' = registered \cup {c}
    /\ UNCHANGED <<storeVars, lockVars, tasks, events, histVars>>

\* automatic::fix_links.  fixed: fix_existing_message returned Some;
\* reply_ok: message.reply returned Ok; can_suppress: the flag handed to
\* try_react_and_suppress (should_suppress_embeds).
fix_links_ignores_reply_failure(c, fixed, reply_ok, can_suppress, embeds, bot_embeds, fixable_embed_links) ==
    IF fixed /\ can_suppress
    THEN handle_embed_suppression(c, embeds, bot_embeds, fixable_embed_links)
    ELSE NoReplyRegistered(c)

fix_links(c, fixed, reply_ok, can_suppress, embeds, bot_embeds, fixable_embed_links) ==
    IF ~fixed
    THEN NoReplyRegistered(c)
    ELSE IF ~reply_ok
    THEN \* "Did not remove embeds because message failed to send"
         NoReplyRegistered(c)
    ELSE IF ~can_suppress
    THEN \* try_react_and_suppress: the suppress future is None
         NoReplyRegistered(c)
    ELSE handle_embed_suppression(c, embeds, bot_embeds, fixable_embed_links)

\* DiscordEventHandler::message: messages written by bots are left alone.
message_handler(c, author_bot, fixed, reply_ok, can_suppress, embeds, bot_embeds, fixable_embed_links) ==
    IF author_bot
    THEN NoReplyRegistered(c)
    ELSE fix_links(c, fixed, reply_ok, can_suppress, embeds, bot_embeds,
                   fixable_embed_links)

NewMessage(c, author_bot, fixed, reply_ok, can_suppress, links, count, embeds) ==
    [op |-> "message", c |-> c, links |-> links, count |-> count, embeds |-> embeds,
     author_bot |-> author_bot, fixed |-> fixed, reply_ok |-> reply_ok,
     can_suppress |-> can_suppress]

\* The two signals of correlation 2, in either order.
SignalPairs ==
    { << Call("orig", 2, <<>>, 0, e), Call("bot", 2, <<>>, n, <<>>) >> :
      e \in SignalEmbeds, n \in 0..MaxCount }
    \cup
    { << Call("bot", 2, <<>>, n, <<>>), Call("orig", 2, <<>>, 0, e) >> :
      e \in SignalEmbeds, n \in 0..MaxCount }

Allowed == <<FALSE, TRUE, TRUE, TRUE>>

\* The reply of correlation 1 is registered with no embed on either message.
\* Message 2 arrives and the two signals of correlation 2 follow: either some
\* condition of the handler fails, or every condition holds and the two
\* messages are in any state.
MessageScripts ==
    { << Call("send", 1, <<"A">>, 0, <<>>),
         NewMessage(2, g[1], g[2], g[3], g[4], <<"A">>, 0, <<>>) >> \o sp :
      g \in (BOOLEAN \X BOOLEAN \X BOOLEAN \X BOOLEAN) \ {Allowed},
      sp \in SignalPairs }
    \cup
    { << Call("send", 1, <<"A">>, 0, <<>>),
         NewMessage(2, Allowed[1], Allowed[2], Allowed[3], Allowed[4],
                    x[1], x[2], x[3]) >> \o sp :
      x \in LinkLists \X (0..MaxCount) \X EmbedLists, sp \in SignalPairs }

InitMessage ==
    /\ InitStore
    /\ StoreInserted
    /\ NoPure
    /\ script \in MessageScripts
    /\ ip = 1

ScriptMessage ==
    /\ ip <= Len(script)
    /\ AllIdle
    /\ script[ip].op = "message"
    /\ LET m == script[ip]
       IN  message_handler(m.c, m.author_bot, m.fixed, m.reply_ok, m.can_suppress,
                           m.embeds, m.count, m.links)
    /\ ip' = ip + 1
    /\ UNCHANGED <<script, pureVars, present, menuVars>>

MessageNext ==
    \/ ScriptSend
    \/ ScriptMessage
    \/ ScriptBot
    \/ ScriptOrig
    \/ \E t \in Tasks :
          \/ UbgRead(t) /\ PairFrame
          \/ UbgWrite(t) /\ PairFrame
          \/ UogRead(t) /\ PairFrame
          \/ UogWrite(t) /\ PairFrame
          \/ UogWrite2(t) /\ PairFrame
          \/ AcquireWrite(t) /\ PairFrame
          \/ Suppress(t) /\ PairFrame

SpecMessage == InitMessage /\ [][MessageNext]_vars

\* ----------------------------------------- the dispatcher of updates
Authors == {"none", "self", "other"}
OptEmbeds == {NoneOpt} \cup {Some(e) : e \in EventEmbedLists}

\* The event changes nothing and starts no handler.
Dropped == UNCHANGED <<storeVars, lockVars, tasks, registered, histVars>>

\* message_update treating an event without author as one of the bot itself.
message_update_ignores_author(t, author, id, embeds) ==
    IF author \in {"none", "self"}
    THEN StartBot(t, id, IF embeds.some THEN Len(embeds.val) ELSE 0)
    ELSE IF embeds.some /\ embeds.val # <<>>
    THEN StartOrig(t, id, embeds.val)
    ELSE Dropped

\* DiscordEventHandler::message_update.  author: event.author is None, the
\* current user, or someone else; id: event.id; embeds: event.embeds.
message_update(t, author, id, embeds) ==
    IF author = "none"
    THEN Dropped
    ELSE IF author = "self"
    THEN \* event.embeds.as_ref().map(|e| e.len()).unwrap_or(0)
         StartBot(t, id, IF embeds.some THEN Len(embeds.val) ELSE 0)
    ELSE IF embeds.some /\ embeds.val # <<>>
    THEN StartOrig(t, id, embeds.val)
    ELSE Dropped

Update(author, id, embeds) ==
    [op |-> "update", author |-> author, id |-> id, embeds |-> embeds]

\* The reply of correlation 1 is registered with no embed on either message,
\* then two update events arrive, each with any author, id and embed list.
DispatchScripts ==
    { << Call("send", 1, <<"A">>, 0, <<>>),
         Update(a1, m1, e1),
         Update(a2, m2, e2) >> :
      a1 \in Authors, m1 \in Messages, e1 \in OptEmbeds,
      a2 \in Authors, m2 \in Messages, e2 \in OptEmbeds }

InitDispatch ==
    /\ InitStore
    /\ StoreInserted
    /\ NoPure
    /\ script \in DispatchScripts
    /\ ip = 1

ScriptUpdate ==
    /\ ip <= Len(script)
    /\ AllIdle
    /\ script[ip].op = "update"
    /\ message_update(1, script[ip].author, script[ip].id, script[ip].embeds)
    /\ ip' = ip + 1
    /\ UNCHANGED <<events, script, pureVars, present, menuVars>>

DispatchNext ==
    \/ ScriptSend
    \/ ScriptUpdate
    \/ \E t \in Tasks :
          \/ UbgRead(t) /\ PairFrame
          \/ UbgWrite(t) /\ PairFrame
          \/ UogRead(t) /\ PairFrame
          \/ UogWrite(t) /\ PairFrame
          \/ UogWrite2(t) /\ PairFrame
          \/ AcquireWrite(t) /\ PairFrame
          \/ Suppress(t) /\ PairFrame

SpecDispatch == InitDispatch /\ [][DispatchNext]_vars

\* ------------------------------ the update handlers running concurrently
\* Calls are started in a fixed order, each as soon as a task is free, while
\* the handlers started before are still at any of their awaits.
RaceScripts ==
    { << Call("add_neither", 1, l, 0, <<>>),
         Call("bot", 1, <<>>, n, <<>>),
         Call("orig", 1, <<>>, 0, e),
         Call("bot", 1, <<>>, n, <<>>) >> :
      l \in LinkLists, n \in 0..MaxCount, e \in SignalEmbeds }
    \cup
    { << Call("add_neither", 1, l, 0, <<>>),
         Call("orig", 1, <<>>, 0, e),
         Call("bot", 1, <<>>, n, <<>>),
         Call("orig", 1, <<>>, 0, e) >> :
      l \in LinkLists, n \in 0..MaxCount, e \in SignalEmbeds }
    \cup
    { << Call("add_neither", 1, l, 0, <<>>),
         Call("bot", 1, <<>>, n, <<>>),
         Call("add_neither", 2, l, 0, <<>>),
         Call("orig", 1, <<>>, 0, e),
         Call("bot", 2, <<>>, n, <<>>) >> :
      l \in LinkLists, n \in 0..MaxCount, e \in SignalEmbeds }

InitRace ==
    /\ InitStore
    /\ StoreInserted
    /\ NoPure
    /\ script \in RaceScripts
    /\ ip = 1

\* add_neither_generated: its write guard is taken and released in the step.
RaceAdd ==
    /\ ip <= Len(script)
    /\ script[ip].op = "add_neither"
    /\ CanWrite
    /\ add_neither_generated(OrigId(script[ip].c), BotId(script[ip].c), script[ip].links)
    /\ registered' = registered \cup {script[ip].c}
    /\ ip' = ip + 1
    /\ UNCHANGED <<lockVars, tasks, events, histVars, script, pureVars, present,
                   menuVars>>

RaceBot ==
    /\ ip <= Len(script)
    /\ script[ip].op = "bot"
    /\ \E t \in Tasks : StartBot(t, BotId(script[ip].c), script[ip].count)
    /\ ip' = ip + 1
    /\ UNCHANGED <<events, script, pureVars, present, menuVars>>

RaceOrig ==
    /\ ip <= Len(script)
    /\ script[ip].op = "orig"
    /\ \E t \in Tasks : StartOrig(t, OrigId(script[ip].c), script[ip].embeds)
    /\ ip' = ip + 1
    /\ UNCHANGED <<events, script, pureVars, present, menuVars>>

RaceNext ==
    \/ RaceAdd
    \/ RaceBot
    \/ RaceOrig
    \/ \E t \in Tasks :
          \/ UbgRead(t) /\ PairFrame
          \/ UbgWrite(t) /\ PairFrame
          \/ UbgRead2(t) /\ PairFrame
          \/ UogRead(t) /\ PairFrame
          \/ UogWrite(t) /\ PairFrame
          \/ UogRead2(t) /\ PairFrame
          \/ UogWrite2(t) /\ PairFrame
          \/ AcquireWrite(t) /\ PairFrame
          \/ AcquireRead(t) /\ PairFrame
          \/ Suppress(t) /\ PairFrame

SpecRace == InitRace /\ [][RaceNext]_vars

\* ------------------------------------ context_menu: the single-map variant
\* One HashMap from the reply's id to (message, embed_count) behind a
\* futures::lock::Mutex.  main inserts only the store of fix_existing_message
\* into context.data; the handlers of context_menu are run here against a
\* context.data that may or may not hold their map.
InitMenu ==
    /\ InitStore
    /\ NoPure
    /\ NoScript
    /\ present \in BOOLEAN

MenuFrame ==
    UNCHANGED <<storeVars, lockVars, matches, mismatched, sentScenarioB, present,
                pureVars>>

\* HashMap::insert: the entry of the key is replaced.
menu_insert(response, message, embed_count) ==
    {e \in menuRemovals : e.response # response}
        \cup {[response |-> response, message |-> message, embed_count |-> embed_count]}

\* context_menu::handle_embed_suppression, called once per reply by
\* context_menu::fix_links.  got_response: interaction.get_response succeeded;
\* response_embeds: response.embeds.len().  The MutexGuard of the insert is a
\* temporary of the statement.
menu_handle_embed_suppression(c, embed_count, response_embeds, got_response) ==
    /\ c \notin registered
    /\ \A d \in Corrs : d < c => d \in registered
    /\ registered' = registered \cup {c}
    /\ IF ~got_response
       THEN UNCHANGED <<menuRemovals, suppressCalls, failed>>
       ELSE IF response_embeds = 0
       THEN /\ IF present
               THEN /\ menuMutex = 0
                    /\ menuRemovals' = menu_insert(BotId(c), OrigId(c), embed_count)
               ELSE UNCHANGED menuRemovals
            /\ UNCHANGED <<suppressCalls, failed>>
       ELSE /\ IF embed_count = response_embeds
               THEN suppress_embeds(OrigId(c))
               ELSE UNCHANGED <<suppressCalls, failed>>
            /\ UNCHANGED menuRemovals
    /\ UNCHANGED <<menuMutex, tasks, events>>
    /\ MenuFrame

\* handle_delayed_embed_suppression up to `removals.lock().await`.
MenuUpdate(t, response, embed_count) ==
    /\ FreeTask(t)
    /\ events < MaxEvents
    /\ events' = events + 1
    /\ IF present
       THEN tasks' = [tasks EXCEPT ![t] = [pc |-> "menu_lock", msg |-> response,
                                           count |-> embed_count, links |-> <<>>]]
       ELSE \* "Future removals not present."
            UNCHANGED tasks
    /\ UNCHANGED <<menuVars, registered, suppressCalls, failed>>
    /\ MenuFrame

\* MenuLock leaving the entry in the map when the counts differ.
MenuLock_keeps_mismatch(t) ==
    LET found == {e \in menuRemovals : e.response = tasks[t].msg} IN
    /\ tasks[t].pc = "menu_lock"
    /\ menuMutex = 0
    /\ IF found = {}
       THEN /\ Return(t)
            /\ UNCHANGED menuVars
       ELSE IF \E e \in found : e.embed_count = tasks[t].count
       THEN /\ menuMutex' = t
            /\ Goto(t, "menu_suppress")
            /\ UNCHANGED menuRemovals
       ELSE /\ Return(t)
            /\ UNCHANGED menuVars
    /\ UNCHANGED <<events, registered, suppressCalls, failed>>
    /\ MenuFrame

\* The mutex is acquired and the entry of event.id looked up.  The guard is a
\* temporary of the scrutinee of the `if let`, which the Entry borrows: it
\* lives to the end of the `if let`.
MenuLock(t) ==
    LET found == {e \in menuRemovals : e.response = tasks[t].msg} IN
    /\ tasks[t].pc = "menu_lock"
    /\ menuMutex = 0
    /\ IF found = {}
       THEN \* Entry::Vacant
            /\ Return(t)
            /\ UNCHANGED menuVars
       ELSE IF \E e \in found : e.embed_count = tasks[t].count
       THEN \* suppress_embeds(..).await inside the `if let`
            /\ menuMutex' = t
            /\ Goto(t, "menu_suppress")
            /\ UNCHANGED menuRemovals
       ELSE \* entry.remove()
            /\ menuRemovals' = menuRemovals \ found
            /\ Return(t)
            /\ UNCHANGED menuMutex
    /\ UNCHANGED <<events, registered, suppressCalls, failed>>
    /\ MenuFrame

\* The suppression call returns, entry.remove() runs and the guard is dropped.
MenuSuppress(t) ==
    LET found == {e \in menuRemovals : e.response = tasks[t].msg} IN
    /\ tasks[t].pc = "menu_suppress"
    /\ \E e \in found : suppress_embeds(e.message)
    /\ menuRemovals' = menuRemovals \ found
    /\ menuMutex' = 0
    /\ Return(t)
    /\ UNCHANGED <<events, registered>>
    /\ MenuFrame

MenuNext ==
    \/ \E c \in Corrs, embed_count \in 1..MaxCount, response_embeds \in 0..MaxCount,
          got_response \in BOOLEAN :
          /\ menu_handle_embed_suppression(c, embed_count, response_embeds, got_response)
          /\ UNCHANGED scriptVars
    \/ \E t \in Tasks, c \in Corrs, embed_count \in 0..MaxCount :
          MenuUpdate(t, BotId(c), embed_count) /\ UNCHANGED scriptVars
    \/ \E t \in Tasks : MenuLock(t) /\ UNCHANGED scriptVars
    \/ \E t \in Tasks : MenuSuppress(t) /\ UNCHANGED scriptVars

SpecMenu == InitMenu /\ [][MenuNext]_vars

\* ------------------- the map of the context-menu command, one reply
\* The reply of correlation 1 is sent, then two update events arrive for the
\* reply of one correlation; the second may arrive while the first is handled.
MenuCall(op, c, embed_count, response_embeds, got_response) ==
    [op |-> op, c |-> c, embed_count |-> embed_count,
     response_embeds |-> response_embeds, got_response |-> got_response]

MenuScripts ==
    { << MenuCall("menu_send", 1, k, r, g),
         MenuCall("menu_update", c, n1, 0, TRUE),
         MenuCall("menu_update", c, n2, 0, TRUE) >> :
      k \in 1..MaxCount, r \in 0..MaxCount, g \in BOOLEAN, c \in Corrs,
      n1 \in 0..MaxCount, n2 \in 0..MaxCount }

InitMenuRace ==
    /\ InitStore
    /\ NoPure
    /\ present \in BOOLEAN
    /\ script \in MenuScripts
    /\ ip = 1

ScriptMenuSend ==
    /\ ip <= Len(script)
    /\ script[ip].op = "menu_send"
    /\ menu_handle_embed_suppression(script[ip].c, script[ip].embed_count,
                                     script[ip].response_embeds, script[ip].got_response)
    /\ ip' = ip + 1
    /\ UNCHANGED script

ScriptMenuUpdate ==
    /\ ip <= Len(script)
    /\ script[ip].op = "menu_update"
    /\ \E t \in Tasks : MenuUpdate(t, BotId(script[ip].c), script[ip].embed_count)
    /\ ip' = ip + 1
    /\ UNCHANGED script

MenuRaceNext ==
    \/ ScriptMenuSend
    \/ ScriptMenuUpdate
    \/ \E t \in Tasks : MenuLock(t) /\ UNCHANGED scriptVars
    \/ \E t \in Tasks : MenuSuppress(t) /\ UNCHANGED scriptVars

SpecMenuRace == InitMenuRace /\ [][MenuRaceNext]_vars

\* ---------------------------------------------------------------- claims
Range(s) == {s[i] : i \in DOMAIN s}

\* The entries of correlation c in the three buckets.
EntriesOf(bucket, c) ==
    {e \in Range(bucket) : e.original_message = OrigId(c) \/ e.bot_message = BotId(c)}

NoEntry(c) ==
    /\ EntriesOf(neither, c) = {}
    /\ EntriesOf(original, c) = {}
    /\ EntriesOf(bot, c) = {}

\* C1: no correlation makes an update operation report success more than
\* once, and suppress_embeds is called at most once on its original message,
\* also when the same signal is delivered again.
C1_AtMostOnce ==
    \A c \in Corrs : matches[c] <= 1 /\ suppressCalls[OrigId(c)] <= 1

\* What the store and the history hold of correlation c, without its ids.
View(c) ==
    [neither |-> {e.fixable_embed_links : e \in EntriesOf(neither, c)},
     original |-> {e.target_embed_count : e \in EntriesOf(original, c)},
     bot |-> {<<e.fixable_embed_links, e.embed_count>> : e \in EntriesOf(bot, c)},
     suppressed |-> suppressCalls[OrigId(c)],
     matched |-> matches[c]]

ScriptDone == ip > Len(script) /\ AllIdle

\* C2: registered with neither side known, the reply signal then the original
\* signal (correlation 1) and the original signal then the reply signal
\* (correlation 2) end the same: suppression once iff the target count equals
\* the reply's count, and the same store state.
C2_Commutative ==
    (ScriptDone /\ script[1].op = "add_neither") =>
        LET target == determine_target_embed_count(get_embed_urls(script[4].embeds),
                                                   script[1].links)
            equal == target.some /\ target.val = script[3].count
            calls == IF equal THEN 1 ELSE 0
        IN  /\ suppressCalls[OrigId(1)] = calls
            /\ suppressCalls[OrigId(2)] = calls
            /\ View(1) = View(2)

\* C3: a correlation for which an update found the two counts unequal has no
\* entry left in the store.
C3_MismatchTerminal ==
    \A c \in mismatched : NoEntry(c)

\* C4: two update operations in flight for the same correlation never both
\* report success.
C4_NoConcurrentDoubleSuccess ==
    \A t1 \in Tasks, t2 \in Tasks :
        (t1 # t2 /\ tasks[t1].pc = "suppress" /\ tasks[t2].pc = "suppress")
            => tasks[t1].msg # tasks[t2].msg

\* C5: a correlation for which a match or a mismatch was determined has no
\* entry in any bucket.
C5_ResolvedIsRemoved ==
    \A c \in Corrs : (matches[c] > 0 \/ c \in mismatched) => NoEntry(c)

\* C6: determine_target_embed_count is defined exactly when the multiset of
\* embed urls is contained in the multiset of fixable links; [A, B] against
\* [A, B] gives 2 and [A, B] against [A] abstains.
Count(s, u) == Cardinality({i \in DOMAIN s : s[i] = u})
Contained(embed_urls, fixable_embed_links) ==
    \A u \in Urls : Count(embed_urls, u) <= Count(fixable_embed_links, u)

C6_ConservativeTargetCount ==
    tResult.done =>
        /\ tResult.result.some <=> Contained(tEmbeds, tLinks)
        /\ (tEmbeds = <<"A", "B">> /\ tLinks = <<"A", "B">>)
              => (tResult.result.some /\ tResult.result.val = 2)
        /\ (tEmbeds = <<"A", "B">> /\ tLinks = <<"A">>) => ~tResult.result.some

C6_Witness ==
    /\ tResult.done
    /\ ~tResult.result.some
    /\ tEmbeds = <<"A", "A">>
    /\ tLinks = <<"A", "B">>

\* C7: the reply side registered with count n and then the original side with
\* target count n (correlation 1), and the original side registered with n and
\* then the reply side with n (correlation 2), both report a match and both
\* leave the store without an entry of the correlation.
C7_ResolutionSymmetry ==
    (ScriptDone /\ script[1].op = "add_bot") =>
        /\ matches[1] = 1
        /\ matches[2] = 1
        /\ View(1) = View(2)
        /\ NoEntry(1)
        /\ NoEntry(2)

\* Scenario A: the handler of an original signal holds the write guard, the
\* correlation is in `neither` (the reply was sent with no embeds on either
\* message), its one fixable link is the one embed the signal reports.
ScenarioA(t) ==
    /\ tasks[t].pc = "uog_write"
    /\ tasks[t].links = <<"A">>
    /\ \E e \in Range(neither) :
          e.original_message = tasks[t].msg /\ e.fixable_embed_links = <<"A">>

\* C8 as stated: in scenario A the original signal reports matched = true and
\* the handler goes on to the suppression call.
C8_ScenarioA_Matches ==
    [][\A t \in Tasks : ScenarioA(t) => tasks'[t].pc = "suppress"]_vars

\* C8 as amended: in scenario A the original signal reports matched = false,
\* calls no suppression, and moves the correlation from `neither` to the
\* original-known bucket with target count 1.
C8_ScenarioA_Upgrades ==
    [][\A t \in Tasks : ScenarioA(t) =>
          /\ tasks'[t] = IdleTask
          /\ suppressCalls' = suppressCalls
          /\ matches' = matches
          /\ \A e \in Range(neither') : e.original_message # tasks[t].msg
          /\ \E e \in Range(original') :
                /\ e.original_message = tasks[t].msg
                /\ e.target_embed_count = 1]_vars

C8_Witness ==
    \E e \in Range(original) :
        /\ e.target_embed_count = 1
        /\ matches[e.original_message] = 0
        /\ suppressCalls[e.original_message] = 0
        /\ AllIdle

\* C9: a correlation sent in scenario B (the original showing one fixable and
\* one unrelated embed, the reply none) has no entry in any bucket and is never
\* suppressed.
C9_ScenarioB_NoEntry ==
    \A c \in sentScenarioB : NoEntry(c) /\ suppressCalls[OrigId(c)] = 0

\* C10: a reply signal handled while the correlation waits in the bot-known
\* bucket leaves the signal's count as the stored embed_count.
C10_LatestReplyCount ==
    [][\A t \in Tasks :
          (/\ tasks[t].pc \in {"ubg_read", "ubg_read2"}
           /\ tasks'[t].pc # tasks[t].pc
           /\ \E e \in Range(bot) : e.bot_message = tasks[t].msg)
          => \E e \in Range(bot') :
                e.bot_message = tasks[t].msg /\ e.embed_count = tasks[t].count]_vars

\* C11: registered with neither side known, once the reply signal and the
\* original signal of a correlation were both handled (in either order) the
\* store ends up, and stays, without an entry of the correlation.
C11_EventuallyRemoved ==
    (script[1].op = "add_neither") => <>[](NoEntry(1) /\ NoEntry(2))

\* The step in which the reply-send handler of the next call runs.
SendStep ==
    /\ ip <= Len(script)
    /\ script[ip].op = "send"
    /\ ip' = ip + 1

\* C12: a reply sent while the original message shows embeds and the reply
\* none is registered in the original-known bucket with the target count
\* computed from the original's embed urls and the fixable links, and nothing
\* is registered when that count is undefined.
C12_RegistersOriginalSide ==
    [][(SendStep /\ present /\ script[ip].embeds # <<>> /\ script[ip].count = 0) =>
          LET call == script[ip]
              target == determine_target_embed_count(get_embed_urls(call.embeds),
                                                     call.links)
          IN  IF target.some
              THEN /\ original' = Append(original,
                                     [original_message |-> OrigId(call.c),
                                      bot_message |-> BotId(call.c),
                                      target_embed_count |-> target.val])
                   /\ UNCHANGED <<neither, bot>>
              ELSE UNCHANGED storeVars]_vars

\* C13: a reply sent while the reply shows embeds and the original message
\* none is registered in the bot-known bucket with the reply's embed count.
C13_RegistersReplySide ==
    [][(SendStep /\ present /\ script[ip].embeds = <<>> /\ script[ip].count # 0) =>
          LET call == script[ip]
          IN  /\ bot' = Append(bot, [original_message |-> OrigId(call.c),
                                     bot_message |-> BotId(call.c),
                                     fixable_embed_links |-> call.links,
                                     embed_count |-> call.count])
              /\ UNCHANGED <<neither, original>>]_vars

\* The reply-send handler of the next call finds embeds on both messages.
FastPath ==
    /\ ip <= Len(script)
    /\ script[ip].op = "send"
    /\ script[ip].embeds # <<>>
    /\ script[ip].count # 0

\* C14: a reply sent while both messages show embeds leaves every bucket as it
\* was, and calls suppress_embeds on the original message exactly when the
\* urls of the original's embeds are all among the fixable links and as many
\* as the reply's embeds.
C14_FastPathLeavesStore ==
    [][(FastPath /\ ip' = ip + 1) =>
          LET call == script[ip]
              urls == SelectSeq(call.embeds, LAMBDA e : e \in Urls)
              equal == Contained(urls, call.links) /\ Len(urls) = call.count
          IN  /\ UNCHANGED storeVars
              /\ suppressCalls' = [suppressCalls EXCEPT ![OrigId(call.c)] =
                                     IF equal THEN @ + 1 ELSE @]]_vars

C14_Witness ==
    /\ ip = 3
    /\ script[2].op = "send"
    /\ script[2].embeds = <<NoUrl, "A">>
    /\ script[2].count = 1
    /\ suppressCalls[OrigId(2)] = 1
    /\ present
    /\ Len(neither) = 1
    /\ original = <<>>
    /\ bot = <<>>

\* No bucket holds an entry with message m as its original or its reply.
Unknown(m) ==
    /\ \A e \in Range(neither) : e.original_message # m /\ e.bot_message # m
    /\ \A e \in Range(original) : e.original_message # m /\ e.bot_message # m
    /\ \A e \in Range(bot) : e.original_message # m /\ e.bot_message # m

\* C15: an update handler whose message id is in no entry of the store returns
\* None / false: it goes on to no suppression and leaves every bucket unchanged.
C15_UnknownIgnored ==
    [][\A t \in Tasks :
          (/\ tasks[t].pc \in {"ubg_read", "uog_read"}
           /\ Unknown(tasks[t].msg)
           /\ tasks'[t] # tasks[t])
          => /\ tasks'[t] = IdleTask
             /\ UNCHANGED <<storeVars, suppressCalls, matches, failed>>]_vars

C15_Witness ==
    /\ ScriptDone
    /\ present
    /\ script[2].op = "bot"
    /\ script[2].c = 2
    /\ Len(neither) = 1
    /\ original = <<>>
    /\ bot = <<>>
    /\ \A m \in Messages : suppressCalls[m] = 0

\* C17: while context.data does not hold the store, a handler that asks for it
\* returns at once: no bucket, guard or task changes and suppress_embeds is
\* not called.  The reply-send handler that finds embeds on both messages does
\* not ask for the store.
C17_StoreUnavailable ==
    [][~present =>
          /\ UNCHANGED <<storeVars, lockVars, tasks, matches, mismatched>>
          /\ (~FastPath => UNCHANGED <<suppressCalls, failed>>)]_vars

C17_Witness ==
    /\ ~present
    /\ ScriptDone
    /\ script[2].op = "bot"
    /\ script[2].c = 1
    /\ registered = {1}
    /\ neither = <<>>
    /\ original = <<>>
    /\ bot = <<>>
    /\ \A m \in Messages : suppressCalls[m] = 0

\* C16: a call of suppress_embeds that fails changes no bucket, is not made
\* again by the handler, which returns, and leaves the store as a successful
\* call does: without an entry of the correlation.
C16_FailureOnlyLogged ==
    [][\A c \in Corrs :
          (OrigId(c) \in failed' /\ OrigId(c) \notin failed) =>
             /\ UNCHANGED storeVars
             /\ suppressCalls' = [suppressCalls EXCEPT ![OrigId(c)] = @ + 1]
             /\ \A t \in Tasks : tasks'[t] # tasks[t] => tasks'[t] = IdleTask
             /\ NoEntry(c)]_vars

\* C18: a task that awaits the suppression call holds no guard of a store: no
\* read or write guard of the RwLock and not the mutex of the single map.
C18_NoLockDuringSuppression ==
    \A t \in Tasks :
        tasks[t].pc \in {"suppress", "menu_suppress"} =>
            /\ t \notin readers
            /\ writer # t
            /\ menuMutex # t

\* The entries of correlation c, bucket by bucket.
AllEntriesOf(c) ==
    <<EntriesOf(neither, c), EntriesOf(original, c), EntriesOf(bot, c)>>

\* C19: the entries of a correlation change only in the step that registers
\* it or in a step of a handler whose signal names its original message or
\* its reply.
C19_Isolation ==
    [][\A c \in Corrs :
          AllEntriesOf(c)' # AllEntriesOf(c) =>
             \/ c \in registered' /\ c \notin registered
             \/ \E t \in Tasks :
                   /\ tasks'[t] # tasks[t]
                   /\ tasks[t].msg \in {OrigId(c), BotId(c)}]_vars

\* update_bot_generated run from its first line to its return on the store as
\* it is now, with no other operation in between.
update_bot_generated(bot_message, embed_count) ==
    LET inNeither == position_bot_message(neither, bot_message)
        inOriginal == position_bot_message(original, bot_message)
    IN  IF inNeither # 0
        THEN [neither |-> swap_remove(neither, inNeither),
              original |-> original,
              bot |-> Append(bot,
                        [original_message |-> neither[inNeither].original_message,
                         bot_message |-> neither[inNeither].bot_message,
                         fixable_embed_links |-> neither[inNeither].fixable_embed_links,
                         embed_count |-> embed_count]),
              matched |-> FALSE, message |-> 0]
        ELSE IF inOriginal # 0 /\ original[inOriginal].target_embed_count = embed_count
        THEN [neither |-> neither, original |-> original, bot |-> bot,
              matched |-> TRUE, message |-> original[inOriginal].original_message]
        ELSE [neither |-> neither, original |-> original, bot |-> bot,
              matched |-> FALSE, message |-> 0]

\* update_original_generated run likewise.
update_original_generated(original_message, embed_links) ==
    LET inNeither == position_original_message(neither, original_message)
        index == filtered_position(original_message, embed_links)
    IN  IF inNeither # 0
        THEN LET target == determine_target_embed_count(
                               embed_links, neither[inNeither].fixable_embed_links)
             IN  [neither |-> swap_remove(neither, inNeither),
                  original |-> IF target.some
                               THEN Append(original,
                                      [original_message |-> neither[inNeither].original_message,
                                       bot_message |-> neither[inNeither].bot_message,
                                       target_embed_count |-> target.val])
                               ELSE original,
                  bot |-> bot, matched |-> FALSE, message |-> 0]
        ELSE IF position_original_message(bot, original_message) # 0 /\ index # 0
        THEN [neither |-> neither, original |-> original,
              bot |-> swap_remove(bot, index),
              matched |-> TRUE, message |-> original_message]
        ELSE [neither |-> neither, original |-> original, bot |-> bot,
              matched |-> FALSE, message |-> 0]

BotPcs == {"ubg_read", "ubg_wantw", "ubg_write", "ubg_wantr", "ubg_read2"}
OrigPcs == {"uog_read", "uog_wantw", "uog_write", "uog_wantr", "uog_read2",
            "uog_wantw2", "uog_write2"}

\* C20: every update operation takes effect in the one step in which it
\* returns, and there its result and the store it leaves are those of the
\* whole operation run alone on the store of that moment; its other steps
\* change no bucket.  The concurrent run therefore equals the sequential run
\* of the operations in the order of their returns.
C20_Linearizable ==
    [][\A t \in Tasks :
          (tasks[t].pc \in BotPcs \cup OrigPcs /\ tasks'[t] # tasks[t]) =>
             IF tasks'[t].pc \in {"idle", "suppress"}
             THEN LET r == IF tasks[t].pc \in BotPcs
                           THEN update_bot_generated(tasks[t].msg, tasks[t].count)
                           ELSE update_original_generated(tasks[t].msg, tasks[t].links)
                  IN  /\ neither' = r.neither
                      /\ original' = r.original
                      /\ bot' = r.bot
                      /\ (tasks'[t].pc = "suppress") = r.matched
                      /\ r.matched => tasks'[t].msg = r.message
             ELSE UNCHANGED storeVars]_vars

\* A reply signal read the entry in `neither`, lost it to an original signal
\* before its write guard, and is re-reading the original-known bucket, where
\* the entry now matches.
C20_Witness ==
    \E t \in Tasks :
        /\ tasks[t].pc = "ubg_read2"
        /\ \E e \in Range(original) :
              /\ e.bot_message = tasks[t].msg
              /\ e.target_embed_count = tasks[t].count

\* The number of entries of correlation c in a bucket.
CountIn(bucket, c) ==
    Cardinality({i \in DOMAIN bucket :
                    \/ bucket[i].original_message = OrigId(c)
                    \/ bucket[i].bot_message = BotId(c)})

EntryCount(c) == CountIn(neither, c) + CountIn(original, c) + CountIn(bot, c)

\* C21: a correlation has at most one entry in the three buckets together,
\* and the step that takes its entry out of `neither` is made under the write
\* guard and leaves at most one entry of it, in another bucket or nowhere.
C21_AtMostOneEntry ==
    [][\A c \in Corrs :
          /\ EntryCount(c) <= 1
          /\ EntryCount(c)' <= 1
          /\ (CountIn(neither, c) = 1 /\ CountIn(neither, c)' = 0) =>
                /\ writer # 0
                /\ writer' = 0
                /\ CountIn(original, c)' + CountIn(bot, c)' <= 1]_vars

C21_Witness ==
    /\ CountIn(bot, 1) = 1
    /\ CountIn(neither, 1) = 0
    /\ CountIn(neither, 2) = 1
    /\ \E t \in Tasks : tasks[t].pc = "uog_wantw" /\ tasks[t].msg = OrigId(1)

\* C25: a defined result of determine_target_embed_count is the number of
\* embed urls passed in; an empty list of embed urls gives 0 whatever the
\* fixable links; fixable links that are the url of no embed do not change
\* the result.
C25_DefinedIsEmbedCount ==
    tResult.done =>
        /\ tResult.result.some => tResult.result.val = Len(tEmbeds)
        /\ tEmbeds = <<>> => tResult.result = Some(0)
        /\ tResult.result =
              determine_target_embed_count(
                  tEmbeds, SelectSeq(tLinks, LAMBDA l : l \in Range(tEmbeds)))

C25_Witness ==
    /\ tResult.done
    /\ tEmbeds = <<"B">>
    /\ tLinks = <<"A", "B", "A">>
    /\ tResult.result = Some(1)

\* C23: a handler goes on to the suppression call with the original message
\* of the correlation its signal names, and suppress_embeds is only ever
\* called on that message or, by the reply-send handler, on the original
\* message the reply answers; never on a reply.
C23_SuppressesMatchedOriginal ==
    [][/\ \A t \in Tasks :
             (tasks'[t].pc = "suppress" /\ tasks[t].pc # "suppress") =>
                \E c \in Corrs :
                   /\ tasks[t].msg \in {OrigId(c), BotId(c)}
                   /\ tasks'[t].msg = OrigId(c)
       /\ \A m \in Messages :
             suppressCalls'[m] # suppressCalls[m] =>
                /\ suppressCalls'[m] = suppressCalls[m] + 1
                /\ \E c \in Corrs :
                      /\ m = OrigId(c)
                      /\ \/ c \in registered' /\ c \notin registered
                         \/ \E t \in Tasks :
                               /\ tasks[t].pc = "suppress"
                               /\ tasks[t].msg = m
                               /\ tasks'[t] = IdleTask]_vars

C23_Witness ==
    /\ ScriptDone
    /\ script[2].op = "orig"
    /\ script[2].c = 1
    /\ suppressCalls[OrigId(1)] = 1
    /\ \A m \in Messages \ {OrigId(1)} : suppressCalls[m] = 0

\* The calls made so far that showed the embeds of the original message of c.
ObservedAt(c) ==
    {j \in 1..(ip - 1) : script[j].c = c /\ script[j].op \in {"send", "orig"}}

\* The urls of the embeds the original message of c showed last.
LastObserved(c) ==
    LET j == CHOOSE k \in ObservedAt(c) : \A i \in ObservedAt(c) : i <= k
    IN  get_embed_urls(script[j].embeds)

\* The fixable links the reply of c was sent with.
LinksOf(c) ==
    LET j == CHOOSE k \in DOMAIN script : script[k].c = c /\ script[k].op = "send"
    IN  script[j].links

\* C22: suppress_embeds is called on an original message only while the urls
\* of the embeds it showed last are all among the fixable links of its
\* correlation, and an original signal with another url on a `neither` entry
\* removes the entry without adding one.
C22_NeverSuppressUnaccounted ==
    [][/\ \A c \in Corrs :
             suppressCalls'[OrigId(c)] # suppressCalls[OrigId(c)] =>
                Contained(LastObserved(c)', LinksOf(c))
       /\ \A t \in Tasks :
             (/\ tasks[t].pc = "uog_write"
              /\ \E e \in Range(neither) :
                    /\ e.original_message = tasks[t].msg
                    /\ ~Contained(tasks[t].links, e.fixable_embed_links))
             => /\ tasks'[t] = IdleTask
                /\ \A e \in Range(neither') : e.original_message # tasks[t].msg
                /\ \A e \in Range(original') : e.original_message # tasks[t].msg
                /\ \A e \in Range(bot') : e.original_message # tasks[t].msg]_vars

\* The message of correlation c arrived and its author was a bot, or the reply
\* failed to send, or the handler was not allowed to suppress.
NotAllowed(c) ==
    \E j \in 1..(ip - 1) :
        /\ script[j].op = "message"
        /\ script[j].c = c
        /\ \/ script[j].author_bot
           \/ ~script[j].reply_ok
           \/ ~script[j].can_suppress

\* C24: when the author of a message is a bot, or the reply fails to send, or
\* can_suppress is false, the correlation has no entry in any bucket and
\* suppress_embeds is never called on the original message.
C24_NoEntryWithoutReply ==
    \A c \in Corrs : NotAllowed(c) => NoEntry(c) /\ suppressCalls[OrigId(c)] = 0

\* A message whose reply failed to send, and nothing else wrong with it: both
\* signals of its correlation were handled.
C24_Witness ==
    /\ ScriptDone
    /\ Len(script) = 4
    /\ ~script[2].author_bot /\ script[2].fixed /\ script[2].can_suppress
    /\ ~script[2].reply_ok
    /\ NotAllowed(2)
    /\ ~NoEntry(1)

\* C26: an update event without author starts no handler; one of the bot
\* itself starts the reply-side update with event.id and the length of the
\* embed list, 0 when the event has none; one of another author starts the
\* original-side update with event.id and the embeds' urls when the list is
\* present and not empty, and otherwise nothing, the store staying as it is.
\* No event starts more than one handler.
C26_DispatchesAtMostOne ==
    [][(ip' = ip + 1 /\ script[ip].op = "update") =>
          LET ev == script[ip]
              started == {t \in Tasks : tasks'[t] # tasks[t]}
          IN  /\ UNCHANGED storeVars
              /\ started \subseteq {1}
              /\ ev.author = "none" => started = {} /\ UNCHANGED lockVars
              /\ ev.author = "self" =>
                    tasks'[1] = [pc |-> "ubg_read", msg |-> ev.id,
                                 count |-> IF ev.embeds.some THEN Len(ev.embeds.val)
                                                             ELSE 0,
                                 links |-> <<>>]
              /\ (ev.author = "other" /\ ev.embeds.some /\ ev.embeds.val # <<>>) =>
                    tasks'[1] = [pc |-> "uog_read", msg |-> ev.id, count |-> 0,
                                 links |-> get_embed_urls(ev.embeds.val)]
              /\ (ev.author = "other" /\ (~ev.embeds.some \/ ev.embeds.val = <<>>)) =>
                    started = {} /\ UNCHANGED lockVars]_vars

\* An event of another author with an empty embed list was dropped, then an
\* event of the bot itself without embed list moved the entry to the bot-known
\* bucket with count 0.
C26_Witness ==
    /\ ScriptDone
    /\ Len(script) = 3
    /\ script[2] = Update("other", OrigId(1), Some(<<>>))
    /\ script[3] = Update("self", BotId(1), NoneOpt)
    /\ neither = <<>>
    /\ Len(bot) = 1
    /\ bot[1].embed_count = 0

\* The message the three-bucket store reports for the reply signal
\* (e.response, embed_count) when it holds the correlation of the map entry e
\* in its original-known bucket, or 0 when it reports none.
ThreeBucketMessage(e, embed_count) ==
    LET known == << [original_message |-> e.message, bot_message |-> e.response,
                     target_embed_count |-> e.embed_count] >>
        idx == position_bot_message(known, e.response)
    IN  IF idx # 0 /\ known[idx].target_embed_count = embed_count
        THEN known[idx].original_message
        ELSE 0

MenuEntries(response) == {e \in menuRemovals : e.response = response}

\* C27: in the map of the context-menu command the first update event that
\* finds the entry of a reply removes it, equal counts or not; with unequal
\* counts nothing is suppressed, then or later; with equal counts the message
\* suppressed is the one the three-bucket store reports for the same reply
\* signal; suppress_embeds is called at most once per registered reply.
C27_FirstEventRemoves ==
    [][/\ \A t \in Tasks :
             (tasks[t].pc = "menu_lock" /\ tasks'[t] # tasks[t]
                                        /\ MenuEntries(tasks[t].msg) # {}) =>
                IF \E e \in MenuEntries(tasks[t].msg) : e.embed_count = tasks[t].count
                THEN /\ tasks'[t].pc = "menu_suppress"
                     /\ menuMutex' = t
                ELSE /\ tasks'[t] = IdleTask
                     /\ \A e \in menuRemovals' : e.response # tasks[t].msg
                     /\ suppressCalls' = suppressCalls
       /\ \A t \in Tasks :
             (tasks[t].pc = "menu_suppress" /\ tasks'[t] # tasks[t]) =>
                /\ \A e \in menuRemovals' : e.response # tasks[t].msg
                /\ \E e \in MenuEntries(tasks[t].msg) :
                      /\ ThreeBucketMessage(e, tasks[t].count) # 0
                      /\ suppressCalls' =
                            [suppressCalls EXCEPT
                               ![ThreeBucketMessage(e, tasks[t].count)] = @ + 1]
       /\ \A c \in Corrs :
             /\ (c \in registered /\ MenuEntries(BotId(c)) = {}) =>
                   /\ suppressCalls'[OrigId(c)] = suppressCalls[OrigId(c)]
                   /\ \A e \in menuRemovals' : e.response # BotId(c)
             /\ suppressCalls'[OrigId(c)] <= 1
             /\ suppressCalls'[BotId(c)] = 0]_vars

\* An update event with the stored count holds the entry of a reply for its
\* suppression call while a second event for the same reply waits.
C27_Witness ==
    /\ tasks[1].pc = "menu_suppress"
    /\ tasks[2].pc = "menu_lock"
    /\ tasks[2].msg = tasks[1].msg
    /\ tasks[2].count # tasks[1].count
    /\ MenuEntries(tasks[1].msg) # {}

====
